---- MODULE Spec2Model ----
(***************************************************************************)
(* Model of scripts/fetch_us_investment_ideas.py: the screener-results     *)
(* queue writer, the per-exchange row aggregator, the candidate collector  *)
(* and the run-identifier / path resolution of main.                       *)
(*                                                                         *)
(* Text is modelled as a sequence of one-character strings, so that        *)
(* str.strip(), str.upper(), Path.suffix and RUN_ID_RE are computed on the *)
(* characters.  A Python dict with string values is a record whose absent  *)
(* keys hold None.                                                         *)
(***************************************************************************)
EXTENDS Integers, Sequences, FiniteSets, TLC

\* ------------------------------------------------------------------ text
None == <<"<None>">>

LF == "\n"

IsSpace(c) == c \in {" ", LF}

LowerLetters == <<"a","b","c","d","e","f","g","h","i","j","k","l","m",
                  "n","o","p","q","r","s","t","u","v","w","x","y","z">>

UpperLetters == <<"A","B","C","D","E","F","G","H","I","J","K","L","M",
                  "N","O","P","Q","R","S","T","U","V","W","X","Y","Z">>

ToUpper(c) ==
    IF \E i \in 1..26 : LowerLetters[i] = c
    THEN UpperLetters[CHOOSE i \in 1..26 : LowerLetters[i] = c]
    ELSE c

Upper(s) == [i \in 1..Len(s) |-> ToUpper(s[i])]

RECURSIVE LStrip(_)
LStrip(s) ==
    IF s = <<>> THEN <<>>
    ELSE IF IsSpace(Head(s)) THEN LStrip(Tail(s)) ELSE s

RECURSIVE RStrip(_)
RStrip(s) ==
    IF s = <<>> THEN <<>>
    ELSE IF IsSpace(s[Len(s)]) THEN RStrip(SubSeq(s, 1, Len(s) - 1)) ELSE s

Strip(s) == RStrip(LStrip(s))

\* _clean_text: None -> "", otherwise str(value).strip()
_clean_text(value) == IF value = None THEN <<>> ELSE Strip(value)

\* the key every reader and writer uses: _clean_text(d.get("ticker")).upper()
TickerKey(value) == Upper(_clean_text(value))

Range(s) == {s[i] : i \in 1..Len(s)}

IsPrefix(s, t) == Len(s) <= Len(t) /\ SubSeq(t, 1, Len(s)) = s

SeqsUpTo(S, n) == UNION {[1..k -> S] : k \in 0..n}

\* ------------------------------------------------------------ queue file
(* A file is [exists, data]; data is a sequence of items.  An item is a    *)
(* newline ("nl"), a run of blanks ("ws"), one JSON object ("rec") with    *)
(* its ticker and thesis, one JSON value that is not an object ("arr"),    *)
(* or text that is not JSON ("junk").  A line is the items between two     *)
(* newlines.                                                               *)
Item(k, ticker, thesis) == [k |-> k, ticker |-> ticker, thesis |-> thesis]

NL == Item("nl", None, None)

WS == Item("ws", None, None)

JUNK == Item("junk", None, None)

ARR == Item("arr", None, None)

Rec(ticker, thesis) == Item("rec", ticker, thesis)

AbsentFile == [exists |-> FALSE, data |-> <<>>]

File(data) == [exists |-> TRUE, data |-> data]

\* str.splitlines(): the runs of items between newlines
RECURSIVE SplitLines(_, _)
SplitLines(data, cur) ==
    IF data = <<>> THEN (IF cur = <<>> THEN <<>> ELSE <<cur>>)
    ELSE IF Head(data).k = "nl" THEN <<cur>> \o SplitLines(Tail(data), <<>>)
    ELSE SplitLines(Tail(data), Append(cur, Head(data)))

RECURSIVE LStripLine(_)
LStripLine(line) ==
    IF line = <<>> THEN <<>>
    ELSE IF Head(line).k = "ws" THEN LStripLine(Tail(line)) ELSE line

RECURSIVE RStripLine(_)
RStripLine(line) ==
    IF line = <<>> THEN <<>>
    ELSE IF line[Len(line)].k = "ws"
         THEN RStripLine(SubSeq(line, 1, Len(line) - 1)) ELSE line

\* json.loads(line) succeeds iff the stripped line is exactly one JSON value
JsonLoadsOk(line) == Len(line) = 1 /\ line[1].k \in {"rec", "arr"}

\* the tickers one line contributes to _read_existing_tickers
LineTickers(raw_line) ==
    LET line == RStripLine(LStripLine(raw_line)) IN
    IF line = <<>> THEN {}
    ELSE IF ~JsonLoadsOk(line) THEN {}
    ELSE IF line[1].k # "rec" THEN {}
    ELSE IF TickerKey(line[1].ticker) = <<>> THEN {}
    ELSE {TickerKey(line[1].ticker)}

_read_existing_tickers(file) ==
    IF ~file.exists THEN {}
    ELSE LET lines == SplitLines(file.data, <<>>) IN
         UNION {LineTickers(lines[i]) : i \in 1..Len(lines)}

\* variant: the file is opened for writing instead of appending
_append_jsonl_lines_truncating(file, lines) ==
    LET RECURSIVE Written(_)
        Written(ls) ==
            IF ls = <<>> THEN <<>> ELSE <<Head(ls), NL>> \o Written(Tail(ls))
    IN File(Written(lines))

_append_jsonl_lines(file, lines) ==
    LET data == IF file.exists THEN file.data ELSE <<>>
        needs_leading_newline == Len(data) > 0 /\ data[Len(data)] # NL
        RECURSIVE Written(_)
        Written(ls) ==
            IF ls = <<>> THEN <<>> ELSE <<Head(ls), NL>> \o Written(Tail(ls))
    IN File(data \o (IF needs_leading_newline THEN <<NL>> ELSE <<>>)
                 \o Written(lines))

Idea(ticker, thesis) == [ticker |-> ticker, thesis |-> thesis]

\* variant: a staged ticker is not added to existing_tickers
RECURSIVE StageIdeas_forgetting(_, _)
StageIdeas_forgetting(ideas, existing_tickers) ==
    IF ideas = <<>> THEN <<>>
    ELSE LET idea == Head(ideas)
             ticker == TickerKey(idea.ticker)
         IN IF ticker = <<>> \/ ticker \in existing_tickers
            THEN StageIdeas_forgetting(Tail(ideas), existing_tickers)
            ELSE <<Rec(ticker, _clean_text(idea.thesis))>>
                 \o StageIdeas_forgetting(Tail(ideas), existing_tickers)

\* the loop of append_selected_ideas: the lines staged for ideas, given the
\* tickers already present or staged
RECURSIVE StageIdeas(_, _)
StageIdeas(ideas, existing_tickers) ==
    IF ideas = <<>> THEN <<>>
    ELSE LET idea == Head(ideas)
             ticker == TickerKey(idea.ticker)
         IN IF ticker = <<>> \/ ticker \in existing_tickers
            THEN StageIdeas(Tail(ideas), existing_tickers)
            ELSE <<Rec(ticker, _clean_text(idea.thesis))>>
                 \o StageIdeas(Tail(ideas), existing_tickers \cup {ticker})

\* variant: _append_jsonl_lines is called even when nothing was staged
append_selected_ideas_always_writing(file, selected_ideas) ==
    LET lines_to_append == StageIdeas(selected_ideas, _read_existing_tickers(file))
    IN [file |-> _append_jsonl_lines(file, lines_to_append),
        mkdir |-> TRUE,
        count |-> Len(lines_to_append)]

\* append_selected_ideas: the file afterwards and the returned count
append_selected_ideas(file, selected_ideas) ==
    LET lines_to_append == StageIdeas(selected_ideas, _read_existing_tickers(file))
    IN [file |-> IF lines_to_append # <<>>
                 THEN _append_jsonl_lines(file, lines_to_append)
                 ELSE file,
        mkdir |-> lines_to_append # <<>>,
        count |-> Len(lines_to_append)]

\* -------------------------------------------------------- row aggregator
VIEWS == <<111, 121, 161>>

ROWS_PER_PAGE == 20

NASDAQ == <<"N","A","S","D","A","Q">>

NYSE == <<"N","Y","S","E">>

AMEX == <<"A","M","E","X">>

\* EXCHANGES.items() in insertion order (the filter is the URL parameter)
EXCHANGES == <<NASDAQ, NYSE, AMEX>>

(* A row of the screener table is a dict from column names to text; the    *)
(* columns the views carry here are Ticker, Exchange, Company and P/E, an  *)
(* absent column holds None.                                               *)
RowKeys == {"Ticker", "Exchange", "Company", "PE"}

Row(ticker, exchange, company, pe) ==
    [Ticker |-> ticker, Exchange |-> exchange, Company |-> company, PE |-> pe]

\* a row that also has the ROE and Debt/Eq columns
MetricRow(ticker, exchange, pe, roe, debt_eq) ==
    [Ticker |-> ticker, Exchange |-> exchange, Company |-> None, PE |-> pe,
     ROE |-> roe, DebtEq |-> debt_eq]

\* row.get(key)
Get(row, key) == IF key \in DOMAIN row THEN row[key] ELSE None

(* What fetch_view_rows returns: the rows listed in rows followed by pad   *)
(* rows that have no Ticker column.                                        *)
ViewRows(rows, pad) == [rows |-> rows, pad |-> pad]

RowCount(view_rows) == Len(view_rows.rows) + view_rows.pad

\* variant: dict.setdefault per key, a value already set is kept
DictUpdate_keeping(slot, row) ==
    [k \in RowKeys |-> IF slot[k] # None THEN slot[k] ELSE row[k]]

\* slot.update(row)
DictUpdate(slot, row) ==
    [k \in RowKeys |-> IF row[k] # None THEN row[k] ELSE slot[k]]

NewSlot(ticker, exchange_name) == Row(ticker, exchange_name, None, None)

\* merged is the dict of slots in insertion order: a sequence of [key, slot]
HasKey(merged, key) == \E i \in 1..Len(merged) : merged[i].key = key

SlotOf(merged, key) ==
    merged[CHOOSE i \in 1..Len(merged) : merged[i].key = key].slot

\* variant: a ticker seen again gets a fresh slot
MergeRow_replacing(merged, row, exchange_name) ==
    LET ticker == TickerKey(row.Ticker) IN
    IF ticker = <<>> THEN merged
    ELSE IF HasKey(merged, ticker)
    THEN [i \in 1..Len(merged) |->
            IF merged[i].key = ticker
            THEN [key |-> ticker,
                  slot |-> DictUpdate(NewSlot(ticker, exchange_name), row)]
            ELSE merged[i]]
    ELSE Append(merged, [key |-> ticker,
                         slot |-> DictUpdate(NewSlot(ticker, exchange_name), row)])

\* lines 244-248: one row into merged
MergeRow(merged, row, exchange_name) ==
    LET ticker == TickerKey(row.Ticker) IN
    IF ticker = <<>> THEN merged
    ELSE IF HasKey(merged, ticker)
    THEN [i \in 1..Len(merged) |->
            IF merged[i].key = ticker
            THEN [key |-> ticker, slot |-> DictUpdate(merged[i].slot, row)]
            ELSE merged[i]]
    ELSE Append(merged, [key |-> ticker,
                         slot |-> DictUpdate(NewSlot(ticker, exchange_name), row)])

RECURSIVE MergeRows(_, _, _)
MergeRows(merged, rows, exchange_name) ==
    IF rows = <<>> THEN merged
    ELSE MergeRows(MergeRow(merged, Head(rows), exchange_name), Tail(rows),
                   exchange_name)

\* lines 242-248: every view's rows in the order of page_rows.values(); the
\* pad rows have no ticker and are skipped
RECURSIVE MergePage(_, _, _)
MergePage(merged, page_rows, exchange_name) ==
    IF page_rows = <<>> THEN merged
    ELSE MergePage(MergeRows(merged, Head(page_rows).rows, exchange_name),
                   Tail(page_rows), exchange_name)

Min(S) == CHOOSE x \in S : \A y \in S : x <= y

min_count(page_rows) == Min({RowCount(page_rows[i]) : i \in 1..Len(page_rows)})

\* variant: a short page stops the loop only when it is empty
StopsAfter_only_empty(count) == count = 0

\* lines 239 and 250: the loop ends after a page with this min_count
StopsAfter(count) == count = 0 \/ count < ROWS_PER_PAGE

\* --------------------------------------------------- candidate collector
\* value.replace(ch, "")
RECURSIVE Remove(_, _)
Remove(value, ch) ==
    IF value = <<>> THEN <<>>
    ELSE (IF Head(value) = ch THEN <<>> ELSE <<Head(value)>>) \o Remove(Tail(value), ch)

DigitChars == <<"0","1","2","3","4","5","6","7","8","9">>

DigitValue(ch) == (CHOOSE n \in 1..10 : DigitChars[n] = ch) - 1

\* the number a run of digits denotes, after acc
RECURSIVE NatValue(_, _)
NatValue(chars, acc) ==
    IF chars = <<>> THEN acc
    ELSE NatValue(Tail(chars), 10 * acc + DigitValue(Head(chars)))

AllDigits(chars) ==
    chars # <<>> /\ \A i \in 1..Len(chars) : chars[i] \in Range(DigitChars)

\* a parsed number, held in tenths (1.5 is Number(15)), and the None the
\* parsers return
Number(tenths) == [null |-> FALSE, tenths |-> tenths]

NoNumber == [null |-> TRUE, tenths |-> 0]

\* float(text) for the texts of the metric cells: digits, or digits with one
\* decimal; NoNumber stands for the ValueError float raises on any other
\* text carried here
Float(text) ==
    IF AllDigits(text) THEN Number(10 * NatValue(text, 0))
    ELSE IF /\ Len(text) >= 3
            /\ text[Len(text) - 1] = "."
            /\ AllDigits(SubSeq(text, 1, Len(text) - 2))
            /\ text[Len(text)] \in Range(DigitChars)
    THEN Number(10 * NatValue(SubSeq(text, 1, Len(text) - 2), 0)
                + DigitValue(text[Len(text)]))
    ELSE NoNumber

parse_percent(value) ==
    IF value = None \/ value \in {<<>>, <<"-">>} THEN NoNumber
    ELSE Float(Remove(Remove(value, "%"), ","))

parse_float(value) ==
    IF value = None \/ value \in {<<>>, <<"-">>} THEN NoNumber
    ELSE Float(Remove(value, ","))

\* the metrics of a candidate that the carried columns feed
Metrics(pe, roe_pct, debt_to_equity) ==
    [pe |-> pe, roe_pct |-> roe_pct, debt_to_equity |-> debt_to_equity]

Candidate(ticker, company, exchange, metrics) ==
    [ticker |-> ticker, company |-> company, exchange |-> exchange, metrics |-> metrics]

NoCandidate == Candidate(<<>>, <<>>, <<>>, Metrics(NoNumber, NoNumber, NoNumber))

\* build_candidate; NoCandidate stands for the None it returns.  The sector
\* and industry fields are built from their columns like company, the other
\* metrics from theirs like pe and roe_pct.
build_candidate(row) ==
    LET ticker == TickerKey(row.Ticker) IN
    IF ticker = <<>> THEN NoCandidate
    ELSE Candidate(ticker, _clean_text(row.Company), _clean_text(row.Exchange),
                   Metrics(parse_float(Get(row, "PE")), parse_percent(Get(row, "ROE")),
                           parse_float(Get(row, "DebtEq"))))

\* variant: seen_tickers is never consulted
RECURSIVE CollectLoop_unseen(_, _, _, _)
CollectLoop_unseen(raw_rows, candidates, seen_tickers, limit) ==
    IF raw_rows = <<>> THEN candidates
    ELSE LET candidate == build_candidate(Head(raw_rows)) IN
         IF candidate = NoCandidate
         THEN CollectLoop_unseen(Tail(raw_rows), candidates, seen_tickers, limit)
         ELSE IF Len(candidates) + 1 >= limit
              THEN Append(candidates, candidate)
              ELSE CollectLoop_unseen(Tail(raw_rows), Append(candidates, candidate),
                                      seen_tickers, limit)

\* variant: the loop ends only once more than limit candidates are held
RECURSIVE CollectLoop_late_break(_, _, _, _)
CollectLoop_late_break(raw_rows, candidates, seen_tickers, limit) ==
    IF raw_rows = <<>> THEN candidates
    ELSE LET candidate == build_candidate(Head(raw_rows)) IN
         IF candidate = NoCandidate
         THEN CollectLoop_late_break(Tail(raw_rows), candidates, seen_tickers, limit)
         ELSE IF candidate.ticker \in seen_tickers
         THEN CollectLoop_late_break(Tail(raw_rows), candidates, seen_tickers, limit)
         ELSE IF Len(candidates) + 1 > limit
              THEN Append(candidates, candidate)
              ELSE CollectLoop_late_break(Tail(raw_rows), Append(candidates, candidate),
                                          seen_tickers \cup {candidate.ticker}, limit)

\* the loop of collect_candidates
RECURSIVE CollectLoop(_, _, _, _)
CollectLoop(raw_rows, candidates, seen_tickers, limit) ==
    IF raw_rows = <<>> THEN candidates
    ELSE LET candidate == build_candidate(Head(raw_rows)) IN
         IF candidate = NoCandidate
         THEN CollectLoop(Tail(raw_rows), candidates, seen_tickers, limit)
         ELSE IF candidate.ticker \in seen_tickers
         THEN CollectLoop(Tail(raw_rows), candidates, seen_tickers, limit)
         ELSE IF Len(candidates) + 1 >= limit
              THEN Append(candidates, candidate)
              ELSE CollectLoop(Tail(raw_rows), Append(candidates, candidate),
                               seen_tickers \cup {candidate.ticker}, limit)

collect_candidates(raw_rows, limit) == CollectLoop(raw_rows, <<>>, {}, limit)

\* ------------------------------------------------ run identity and paths
(* A path is the sequence of its parts (Path.parts below the file system  *)
(* root); NoPath stands for an option that was not given.  Paths given on *)
(* the command line are absolute, so _resolve_path returns them as given.  *)
NoPath == <<>>

SCREENER_RESULTS_FILENAME == <<"s","c","r","e","e","n","e","r","-","r","e","s","u","l","t","s",".","j","s","o","n","l">>

CANDIDATES_FILENAME == <<"f","i","n","v","i","z","-","c","a","n","d","i","d","a","t","e","s",".","j","s","o","n">>

\* DEFAULT_IDEA_SCREENS_SUBPATH.name
IDEA_SCREENS == <<"i","d","e","a","-","s","c","r","e","e","n","s">>

\* _resolve_data_root(): the data directory of the process
DATA_ROOT == <<<<"d">>>>

resolve_idea_screens_root == DATA_ROOT \o <<IDEA_SCREENS>>

Digits == {"0","1","2","3","4","5","6","7","8","9"}

\* variant: only the length of the identifier is checked
RUN_ID_RE_match_length_only(run_id) ==
    LET body == IF Len(run_id) = 18 /\ run_id[18] = LF
                THEN SubSeq(run_id, 1, 17) ELSE run_id
    IN Len(body) = 17

\* RUN_ID_RE.match(run_id) for ^\d{4}-\d{2}-\d{2}-\d{6}$ ; in Python $ also
\* matches just before a newline that ends the string
RUN_ID_RE_match(run_id) ==
    LET body == IF Len(run_id) = 18 /\ run_id[18] = LF
                THEN SubSeq(run_id, 1, 17) ELSE run_id
    IN /\ Len(body) = 17
       /\ \A i \in 1..17 :
            IF i \in {5, 8, 11} THEN body[i] = "-" ELSE body[i] \in Digits

PathName(path) == path[Len(path)]

PathParent(path) == SubSeq(path, 1, Len(path) - 1)

\* Path.suffix: from the last dot of the name, unless the name starts or
\* ends with it
PathSuffix(path) ==
    LET name == PathName(path)
        dots == {i \in 1..Len(name) : name[i] = "."}
    IN IF dots = {} THEN <<>>
       ELSE LET i == CHOOSE d \in dots : \A e \in dots : e <= d
            IN IF 1 < i /\ i < Len(name) THEN SubSeq(name, i, Len(name)) ELSE <<>>

_looks_like_directory_path(path, expected_filename) ==
    PathSuffix(path) = <<>> /\ PathName(path) # expected_filename

\* the part after the first IDEA_SCREENS part that has a part after it
_extract_screen_run_id_from_path(path) ==
    LET hits == {i \in 1..Len(path) : path[i] = IDEA_SCREENS /\ i + 1 <= Len(path)}
    IN IF hits = {} THEN None
       ELSE path[(CHOOSE i \in hits : \A j \in hits : i <= j) + 1]

Resolved(path, run_id) == [ok |-> TRUE, path |-> path, run_id |-> run_id]

ResolveError == [ok |-> FALSE, path |-> NoPath, run_id |-> None]

\* _resolve_output_json_path; now is what _new_screen_run_id() returns
_resolve_output_json_path(output_json, ideas_log, screen_run_id, now) ==
    LET chosen ==
            IF output_json # NoPath THEN output_json
            ELSE IF ideas_log # NoPath
            THEN (IF _looks_like_directory_path(ideas_log, SCREENER_RESULTS_FILENAME)
                  THEN ideas_log \o <<CANDIDATES_FILENAME>>
                  ELSE PathParent(ideas_log) \o <<CANDIDATES_FILENAME>>)
            ELSE resolve_idea_screens_root
                 \o <<IF screen_run_id \notin {None, <<>>} THEN screen_run_id ELSE now,
                      CANDIDATES_FILENAME>>
        output_path ==
            IF _looks_like_directory_path(chosen, CANDIDATES_FILENAME)
            THEN chosen \o <<CANDIDATES_FILENAME>> ELSE chosen
        run_id_from_path == _extract_screen_run_id_from_path(output_path)
        requested_run_id == _clean_text(screen_run_id)
        resolved_run_id ==
            IF requested_run_id # <<>> THEN requested_run_id
            ELSE IF run_id_from_path # None THEN run_id_from_path ELSE now
    IN IF requested_run_id # <<>> /\ ~RUN_ID_RE_match(requested_run_id)
       THEN ResolveError
       ELSE IF run_id_from_path # None /\ ~RUN_ID_RE_match(run_id_from_path)
       THEN ResolveError
       ELSE IF /\ run_id_from_path # None
               /\ requested_run_id # <<>>
               /\ requested_run_id # run_id_from_path
       THEN ResolveError
       ELSE IF ~RUN_ID_RE_match(resolved_run_id) THEN ResolveError
       ELSE Resolved(output_path, resolved_run_id)

\* _resolve_screener_results_path
_resolve_screener_results_path(ideas_log, output_json_path, screen_run_id) ==
    LET path ==
            IF ideas_log # NoPath
            THEN (IF _looks_like_directory_path(ideas_log, SCREENER_RESULTS_FILENAME)
                  THEN ideas_log \o <<SCREENER_RESULTS_FILENAME>>
                  ELSE IF PathName(ideas_log) = CANDIDATES_FILENAME
                  THEN PathParent(ideas_log) \o <<SCREENER_RESULTS_FILENAME>>
                  ELSE ideas_log)
            ELSE PathParent(output_json_path) \o <<SCREENER_RESULTS_FILENAME>>
        run_id_from_path == _extract_screen_run_id_from_path(path)
    IN IF run_id_from_path # None /\ ~RUN_ID_RE_match(run_id_from_path)
       THEN ResolveError
       ELSE IF run_id_from_path # None /\ run_id_from_path # screen_run_id
       THEN ResolveError
       ELSE Resolved(path, screen_run_id)

\* lines 819-825 of main: both resolutions, the second only after the first
ResolvePaths(output_json, ideas_log, screen_run_id, now) ==
    LET out == _resolve_output_json_path(output_json, ideas_log, screen_run_id, now)
    IN IF ~out.ok THEN [ok |-> FALSE, output_json_path |-> NoPath,
                        screener_results_path |-> NoPath, screen_run_id |-> None]
       ELSE LET res == _resolve_screener_results_path(ideas_log, out.path, out.run_id)
            IN IF ~res.ok THEN [ok |-> FALSE, output_json_path |-> NoPath,
                                screener_results_path |-> NoPath,
                                screen_run_id |-> None]
               ELSE [ok |-> TRUE, output_json_path |-> out.path,
                     screener_results_path |-> res.path,
                     screen_run_id |-> out.run_id]

\* ------------------------------------------------ selection and cleanup
\* the snapshot JSON main writes (one object, printed over several lines)
SNAP == Item("snap", None, None)

\* the JSON text of a selection; what it holds is told by a payload
SEL == Item("sel", None, None)

\* a payload is what json.loads returns for the selection text: "object" is
\* an object with an 'ideas' list, "array" a bare array of objects, "other"
\* an object without an 'ideas' list or a scalar, "invalid" is not JSON
Payload(kind, ideas) == [kind |-> kind, ideas |-> ideas]

SelectionRead(ok, items) == [ok |-> ok, items |-> items]

RECURSIVE StripText(_)
StripText(data) ==
    IF data = <<>> THEN <<>>
    ELSE IF Head(data).k \in {"ws", "nl"} THEN StripText(Tail(data))
    ELSE IF data[Len(data)].k \in {"ws", "nl"}
    THEN StripText(SubSeq(data, 1, Len(data) - 1))
    ELSE data

\* _read_selection_payload on the text raw; payload tells what a SEL item holds
_read_selection_payload(raw, payload) ==
    LET payload_text == StripText(raw) IN
    IF Len(payload_text) # 1 THEN SelectionRead(FALSE, <<>>)
    ELSE LET item == payload_text[1] IN
         IF item.k = "sel"
         THEN (IF payload.kind \in {"object", "array"}
               THEN SelectionRead(TRUE, payload.ideas)
               ELSE SelectionRead(FALSE, <<>>))
         ELSE IF item.k = "arr" THEN SelectionRead(TRUE, <<>>)
         ELSE SelectionRead(FALSE, <<>>)

\* variant: the thesis of an item is not looked at
RECURSIVE NormalizeLoop_any_thesis(_, _, _, _, _)
NormalizeLoop_any_thesis(selected_payload, candidate_tickers, normalized, seen_tickers, idea_limit) ==
    IF selected_payload = <<>> THEN normalized
    ELSE LET item == Head(selected_payload)
             ticker == TickerKey(item.ticker)
             thesis == _clean_text(item.thesis)
         IN IF ticker = <<>> \/ ticker \in seen_tickers
               \/ ticker \notin candidate_tickers
            THEN NormalizeLoop_any_thesis(Tail(selected_payload), candidate_tickers,
                                          normalized, seen_tickers, idea_limit)
            ELSE IF Len(normalized) + 1 >= idea_limit
            THEN Append(normalized, Idea(ticker, thesis))
            ELSE NormalizeLoop_any_thesis(Tail(selected_payload), candidate_tickers,
                                          Append(normalized, Idea(ticker, thesis)),
                                          seen_tickers \cup {ticker}, idea_limit)

\* the loop of _normalize_selected_ideas
RECURSIVE NormalizeLoop(_, _, _, _, _)
NormalizeLoop(selected_payload, candidate_tickers, normalized, seen_tickers, idea_limit) ==
    IF selected_payload = <<>> THEN normalized
    ELSE LET item == Head(selected_payload)
             ticker == TickerKey(item.ticker)
             thesis == _clean_text(item.thesis)
         IN IF ticker = <<>> \/ ticker \in seen_tickers
               \/ ticker \notin candidate_tickers \/ thesis = <<>>
            THEN NormalizeLoop(Tail(selected_payload), candidate_tickers,
                               normalized, seen_tickers, idea_limit)
            ELSE IF Len(normalized) + 1 >= idea_limit
            THEN Append(normalized, Idea(ticker, thesis))
            ELSE NormalizeLoop(Tail(selected_payload), candidate_tickers,
                               Append(normalized, Idea(ticker, thesis)),
                               seen_tickers \cup {ticker}, idea_limit)

_normalize_selected_ideas(selected_payload, candidates, idea_limit) ==
    NormalizeLoop(selected_payload,
                  {TickerKey(candidates[i].ticker) : i \in 1..Len(candidates)},
                  <<>>, {}, idea_limit)

\* _is_within: path.relative_to(root) succeeds
_is_within(path, root) == IsPrefix(root, path)

\* _cleanup_artifacts: the paths it unlinks, in order; exists tells which
\* paths are files
_cleanup_artifacts(exists, output_json_path, selection_json_path, screener_results_path, keep_artifacts) ==
    IF keep_artifacts THEN <<>>
    ELSE LET run_dir == PathParent(screener_results_path)
             candidate_path == output_json_path
             first == IF exists[candidate_path] /\ _is_within(candidate_path, run_dir)
                      THEN <<candidate_path>> ELSE <<>>
             exists_then == [p \in DOMAIN exists |->
                                exists[p] /\ p \notin Range(first)]
             second == IF /\ selection_json_path # NoPath
                          /\ exists_then[selection_json_path]
                          /\ _is_within(selection_json_path, run_dir)
                          /\ selection_json_path # screener_results_path
                          /\ selection_json_path # candidate_path
                       THEN <<selection_json_path>> ELSE <<>>
         IN first \o second

\* ---------------------------------------------------------------- bounds
MaxInitLines == 1
MaxIdeas == 2
MaxCalls == 1

\* raw ticker values a caller or an older line may carry
RawTickers == {None, <<" ">>, <<"A">>, <<" ", "a">>, <<"B">>}

\* the two spellings of ticker A carry different theses, so that the record
\* kept for A tells which idea it came from
Ideas == {Idea(<<" ">>, <<"x">>), Idea(<<"A">>, <<"x">>),
          Idea(<<" ", "a">>, <<"y", " ">>), Idea(<<"B">>, <<"x">>)}

\* lines an older queue file may hold: an empty line, blanks, text that is
\* not JSON, JSON that is not an object, an object without ticker, and
\* records, one of them with blanks around it
InitLines ==
    {<<>>, <<WS>>, <<JUNK>>, <<ARR>>, <<Rec(None, <<"x">>)>>, <<Rec(<<"A">>, <<"x">>)>>,
     <<WS, Rec(<<" ", "a">>, <<"x">>), WS>>, <<Rec(<<"B">>, <<"x">>)>>}

\* the lines joined by newlines, with or without a newline at the end
RECURSIVE JoinLines(_, _)
JoinLines(lines, trailing_newline) ==
    IF lines = <<>> THEN <<>>
    ELSE Head(lines)
         \o (IF Len(lines) > 1 \/ trailing_newline THEN <<NL>> ELSE <<>>)
         \o JoinLines(Tail(lines), trailing_newline)

\* the most pages one exchange may be asked for (--max-pages-per-exchange)
MaxPages == 2

\* rows the screener may list for a ticker: Company and P/E differ between
\* rows, and ticker A comes in two spellings
ViewRowChoices ==
    {<<>>,
     <<Row(<<"A">>, None, <<"c","1">>, None)>>,
     <<Row(<<" ","a">>, None, <<"c","2">>, <<"9">>)>>,
     <<Row(<<"B">>, None, None, <<"7">>)>>,
     <<Row(<<"A">>, None, None, <<"8">>), Row(<<"a"," ">>, None, <<"c","3">>, None)>>}

\* a view answers with no padding, one row short of a page, or a full page
FetchResults ==
    UNION {{ViewRows(rows, pad) :
                pad \in {0, ROWS_PER_PAGE - 1 - Len(rows), ROWS_PER_PAGE - Len(rows)}} :
           rows \in ViewRowChoices}

MaxRawRows == 3
MaxLimit == 2

\* rows as merge_exchange_rows hands them on: Ticker as the last row spelled
\* it, Exchange the exchange name
CollectRows ==
    {Row(t, e, c, None) : t \in RawTickers, e \in {NASDAQ, NYSE},
                          c \in {<<"c","1">>}}
    \cup {MetricRow(<<"A">>, NASDAQ, <<"1","0">>, <<"2","0","%">>, <<"0",".","5">>),
          MetricRow(<<"B">>, NYSE, <<"3","0">>, <<"2","0","%">>, <<"0",".","5">>),
          MetricRow(<<"C">>, NASDAQ, <<"5">>, <<"3","0","%">>, <<"0">>),
          MetricRow(<<"B">>, NASDAQ, <<"-">>, <<"1",",","0","1","6","%">>, <<"x">>)}

\* run identifiers on the command line, in paths and from the clock
RUN_A == <<"2","0","2","4","-","0","1","-","0","2","-","0","3","0","4","0","5">>

RUN_B == <<"2","0","2","4","-","0","1","-","0","2","-","0","3","0","4","0","6">>

\* RUN_A followed by a newline
RUN_A_NL == RUN_A \o <<LF>>

\* 2024-1-2-030405
RUN_BAD == <<"2","0","2","4","-","1","-","2","-","0","3","0","4","0","5">>

SELECTION_FILENAME == <<"s","e","l",".","j","s","o","n">>

\* directories the options may name
ArgDirs ==
    {DATA_ROOT,
     resolve_idea_screens_root \o <<RUN_A>>,
     resolve_idea_screens_root \o <<RUN_B>>,
     resolve_idea_screens_root \o <<RUN_BAD>>}

\* values of --output-json and --ideas-log: a directory or a file in it
ArgPaths ==
    ArgDirs \cup {dir \o <<name>> : dir \in ArgDirs,
                     name \in {CANDIDATES_FILENAME, SCREENER_RESULTS_FILENAME}}

ArgRunIds == {None, RUN_A, RUN_B, RUN_A_NL, RUN_BAD}

\* "-" : the selection is read from standard input
STDIN == <<<<"-">>>>

ArgSelections ==
    {NoPath, STDIN,
     resolve_idea_screens_root \o <<RUN_A, SELECTION_FILENAME>>,
     DATA_ROOT \o <<SELECTION_FILENAME>>}

MaxIdeaLimit == 2

\* what the clock may make of _new_screen_run_id()
ClockRunIds == {RUN_A, RUN_B}

\* every path a run may read, write or delete
FsPaths ==
    {dir \o <<name>> : dir \in ArgDirs,
        name \in {CANDIDATES_FILENAME, SCREENER_RESULTS_FILENAME, SELECTION_FILENAME}}

\* the queue file an earlier run left in the folder of RUN_A
OldQueuePath == resolve_idea_screens_root \o <<RUN_A, SCREENER_RESULTS_FILENAME>>

OldQueue == File(<<Rec(<<"A">>, <<"x">>), NL>>)

\* what merge_exchange_rows may return for the i-th exchange
ExchangeRows(i) ==
    IF i = 1 THEN {<<>>, <<Row(<<"A">>, NASDAQ, <<"c","1">>, None)>>}
    ELSE IF i = 2 THEN {<<Row(<<" ","a">>, NYSE, <<"c","2">>, None),
                          Row(<<"B">>, NYSE, <<"c","1">>, None)>>}
    ELSE {<<>>}

\* --limit of a run
RunLimit == 2

SelectionPayloads ==
    {Payload("invalid", <<>>), Payload("other", <<>>), Payload("object", <<>>),
     Payload("object", <<Idea(<<"A">>, <<"x">>)>>),
     Payload("array", <<Idea(<<" ">>, <<"x">>), Idea(<<"Z">>, <<"x">>),
                        Idea(<<" ","a">>, <<"y"," ">>), Idea(<<"A">>, <<"x">>),
                        Idea(<<"B">>, <<" ">>), Idea(<<"B">>, <<"x">>)>>)}

\* the records of a file as its reader sees them: one per well-formed line
RECURSIVE LineRecords(_)
LineRecords(lines) ==
    IF lines = <<>> THEN <<>>
    ELSE LET line == RStripLine(LStripLine(Head(lines))) IN
         (IF JsonLoadsOk(line) /\ line[1].k = "rec" THEN <<line[1]>> ELSE <<>>)
         \o LineRecords(Tail(lines))

Records(file) == LineRecords(SplitLines(file.data, <<>>))

NoDuplicateTickers(file) ==
    LET recs == Records(file) IN
    \A i, j \in 1..Len(recs) :
        i < j => TickerKey(recs[i].ticker) # TickerKey(recs[j].ticker)

\* what main holds before paths are resolved, and how a process ends
Unresolved == [ok |-> FALSE, output_json_path |-> NoPath,
               screener_results_path |-> NoPath, screen_run_id |-> None]

Running == [code |-> 0, kind |-> "running"]

Exit(code, kind) == [code |-> code, kind |-> kind]

LogEntry(op, path) == [op |-> op, path |-> path]

\* ----------------------------------------------------------------- state
VARIABLES
    qfile,      \* the queue file at the path given to append_selected_ideas
    qdir,       \* whether the queue file's parent directory exists
    qprev,      \* the queue file before the last call
    qdirprev,   \* qdir before the last call
    qideas,     \* selected_ideas of the last call
    qret,       \* value returned by the last call
    qcalls      \* number of calls made

VARIABLES
    m_exchange,     \* exchange_name
    m_max_pages,    \* max_pages
    m_page,         \* the loop variable page
    m_page_rows,    \* page_rows of the page being fetched or last decided
    m_merged,       \* merged
    m_before,       \* merged as it was before the last decided page
    m_fetches,      \* every fetch_view_rows call made: [start_row, view]
    m_counts,       \* the row counts of the views of each decided page
    m_pc            \* "fetch", "decide" or "done" (the function returned)

VARIABLES
    c_raw_rows,     \* raw_rows given to collect_candidates
    c_limit,        \* limit
    c_candidates,   \* the list returned
    c_pc            \* "call" or "done"

VARIABLES
    args,           \* the parsed command line of main
    x_pc,           \* where main is: "parse_args", "fetch", "collect",
                    \* "resolve", "write", "select", "append", "cleanup", "exit"
    x_fetched,      \* number of merge_exchange_rows calls made
    x_raw_rows,     \* raw_rows
    x_candidates,   \* candidates
    x_paths,        \* output_json_path, screener_results_path, screen_run_id
    x_fs,           \* the files at FsPaths
    x_log,          \* every change main made to a file: [op, path]
    x_payload,      \* selected_payload
    x_selected,     \* normalized_selected
    x_appended,     \* appended_count
    x_exit          \* how the process ended: [code, kind]

qvars == <<qfile, qdir, qprev, qdirprev, qideas, qret, qcalls>>

mvars == <<m_exchange, m_max_pages, m_page, m_page_rows, m_merged, m_before,
           m_fetches, m_counts, m_pc>>

cvars == <<c_raw_rows, c_limit, c_candidates, c_pc>>

xvars == <<args, x_pc, x_fetched, x_raw_rows, x_candidates, x_paths, x_fs, x_log,
           x_payload, x_selected, x_appended, x_exit>>

vars == <<qvars, mvars, cvars, xvars>>

\* ---------------------------------------------------------- queue writer
QueueInit ==
    /\ qfile \in {AbsentFile}
                 \cup {f \in {File(JoinLines(lines, nl)) :
                                 lines \in SeqsUpTo(InitLines, MaxInitLines),
                                 nl \in BOOLEAN} :
                          NoDuplicateTickers(f)}
    /\ qdir \in (IF qfile.exists THEN {TRUE} ELSE BOOLEAN)
    /\ qprev = qfile
    /\ qdirprev = qdir
    /\ qideas = <<>>
    /\ qret = 0
    /\ qcalls = 0
    \* no merge_exchange_rows call is in progress
    /\ m_exchange = NASDAQ
    /\ m_max_pages = 1
    /\ m_page = 0
    /\ m_page_rows = <<>>
    /\ m_merged = <<>>
    /\ m_before = <<>>
    /\ m_fetches = <<>>
    /\ m_counts = <<>>
    /\ m_pc = "done"
    \* no collect_candidates call is in progress
    /\ c_raw_rows = <<>>
    /\ c_limit = 1
    /\ c_candidates = <<>>
    /\ c_pc = "done"
    \* no run of main is in progress
    /\ args = [output_json |-> NoPath, ideas_log |-> NoPath, screen_run_id |-> None,
               selection_json |-> NoPath, fetch_only |-> FALSE,
               keep_artifacts |-> FALSE, idea_limit |-> 1, limit |-> RunLimit]
    /\ x_pc = "exit"
    /\ x_fetched = 0
    /\ x_raw_rows = <<>>
    /\ x_candidates = <<>>
    /\ x_paths = Unresolved
    /\ x_fs = [p \in {} |-> AbsentFile]
    /\ x_log = <<>>
    /\ x_payload = <<>>
    /\ x_selected = <<>>
    /\ x_appended = 0
    /\ x_exit = Running

\* one call append_selected_ideas(path=..., selected_ideas=ideas)
AppendSelectedIdeas(ideas) ==
    /\ qcalls < MaxCalls
    /\ \E r \in {append_selected_ideas(qfile, ideas)} :
         /\ qfile' = r.file
         /\ qdir' = (qdir \/ r.mkdir)
         /\ qret' = r.count
    /\ qprev' = qfile
    /\ qdirprev' = qdir
    /\ qideas' = ideas
    /\ qcalls' = qcalls + 1
    /\ UNCHANGED <<mvars, cvars, xvars>>

QueueNext == \E ideas \in SeqsUpTo(Ideas, MaxIdeas) : AppendSelectedIdeas(ideas)

\* ------------------------------------------------- merge_exchange_rows
MergeInit ==
    /\ m_exchange \in {EXCHANGES[i] : i \in 1..Len(EXCHANGES)}
    /\ m_max_pages \in 1..MaxPages
    /\ m_page = 0
    /\ m_page_rows = <<>>
    /\ m_merged = <<>>
    /\ m_before = <<>>
    /\ m_fetches = <<>>
    /\ m_counts = <<>>
    /\ m_pc = "fetch"
    \* no queue writer call is in progress
    /\ qfile = AbsentFile
    /\ qdir = FALSE
    /\ qprev = AbsentFile
    /\ qdirprev = FALSE
    /\ qideas = <<>>
    /\ qret = 0
    /\ qcalls = 0
    \* no collect_candidates call is in progress
    /\ c_raw_rows = <<>>
    /\ c_limit = 1
    /\ c_candidates = <<>>
    /\ c_pc = "done"
    \* no run of main is in progress
    /\ args = [output_json |-> NoPath, ideas_log |-> NoPath, screen_run_id |-> None,
               selection_json |-> NoPath, fetch_only |-> FALSE,
               keep_artifacts |-> FALSE, idea_limit |-> 1, limit |-> RunLimit]
    /\ x_pc = "exit"
    /\ x_fetched = 0
    /\ x_raw_rows = <<>>
    /\ x_candidates = <<>>
    /\ x_paths = Unresolved
    /\ x_fs = [p \in {} |-> AbsentFile]
    /\ x_log = <<>>
    /\ x_payload = <<>>
    /\ x_selected = <<>>
    /\ x_appended = 0
    /\ x_exit = Running

\* lines 228-236: the next view of the page is fetched and the source
\* answers with result
FetchView(result) ==
    /\ m_pc = "fetch"
    /\ LET fetched == IF Len(m_page_rows) = Len(VIEWS) THEN <<>> ELSE m_page_rows
           view == VIEWS[Len(fetched) + 1]
       IN /\ m_page_rows' = Append(fetched, result)
          /\ m_fetches' = Append(m_fetches,
                                 [start_row |-> 1 + (m_page * ROWS_PER_PAGE),
                                  view |-> view])
          /\ m_pc' = IF Len(fetched) + 1 = Len(VIEWS) THEN "decide" ELSE "fetch"
    /\ UNCHANGED <<m_exchange, m_max_pages, m_page, m_merged, m_before, m_counts>>
    /\ UNCHANGED <<qvars, cvars, xvars>>

\* lines 238-251 and the loop header: the page is merged unless a view was
\* empty, and the loop ends or moves to the next page
MergeAndDecide ==
    /\ m_pc = "decide"
    /\ LET count == min_count(m_page_rows) IN
         /\ m_merged' = IF count = 0 THEN m_merged
                        ELSE MergePage(m_merged, m_page_rows, m_exchange)
         /\ IF StopsAfter(count) \/ m_page + 1 >= m_max_pages
            THEN m_pc' = "done" /\ m_page' = m_page
            ELSE m_pc' = "fetch" /\ m_page' = m_page + 1
    /\ m_before' = m_merged
    /\ m_counts' = Append(m_counts,
                          [i \in 1..Len(m_page_rows) |-> RowCount(m_page_rows[i])])
    /\ UNCHANGED <<m_exchange, m_max_pages, m_page_rows, m_fetches>>
    /\ UNCHANGED <<qvars, cvars, xvars>>

MergeNext ==
    \/ \E result \in FetchResults : FetchView(result)
    \/ MergeAndDecide

\* ---------------------------------------------------- collect_candidates
CollectInit ==
    /\ c_raw_rows \in SeqsUpTo(CollectRows, MaxRawRows)
    /\ c_limit \in 1..MaxLimit
    /\ c_candidates = <<>>
    /\ c_pc = "call"
    \* no queue writer call is in progress
    /\ qfile = AbsentFile
    /\ qdir = FALSE
    /\ qprev = AbsentFile
    /\ qdirprev = FALSE
    /\ qideas = <<>>
    /\ qret = 0
    /\ qcalls = 0
    \* no merge_exchange_rows call is in progress
    /\ m_exchange = NASDAQ
    /\ m_max_pages = 1
    /\ m_page = 0
    /\ m_page_rows = <<>>
    /\ m_merged = <<>>
    /\ m_before = <<>>
    /\ m_fetches = <<>>
    /\ m_counts = <<>>
    /\ m_pc = "done"
    \* no run of main is in progress
    /\ args = [output_json |-> NoPath, ideas_log |-> NoPath, screen_run_id |-> None,
               selection_json |-> NoPath, fetch_only |-> FALSE,
               keep_artifacts |-> FALSE, idea_limit |-> 1, limit |-> RunLimit]
    /\ x_pc = "exit"
    /\ x_fetched = 0
    /\ x_raw_rows = <<>>
    /\ x_candidates = <<>>
    /\ x_paths = Unresolved
    /\ x_fs = [p \in {} |-> AbsentFile]
    /\ x_log = <<>>
    /\ x_payload = <<>>
    /\ x_selected = <<>>
    /\ x_appended = 0
    /\ x_exit = Running

CollectCandidates ==
    /\ c_pc = "call"
    /\ c_candidates' = collect_candidates(c_raw_rows, c_limit)
    /\ c_pc' = "done"
    /\ UNCHANGED <<c_raw_rows, c_limit>>
    /\ UNCHANGED <<qvars, mvars, xvars>>

CollectNext == CollectCandidates

\* ------------------------------------------------------------------ main
\* the files a run finds: the queue file of an earlier run and, when
\* --selection-json names a path in FsPaths, the selection text there
InitialFs ==
    [p \in FsPaths |->
        IF p = OldQueuePath THEN OldQueue
        ELSE IF p = args.selection_json THEN File(<<SEL, NL>>)
        ELSE AbsentFile]

MainInit ==
    /\ args \in [output_json : {NoPath} \cup ArgPaths,
                 ideas_log : {NoPath} \cup ArgPaths,
                 screen_run_id : ArgRunIds,
                 selection_json : ArgSelections,
                 fetch_only : BOOLEAN,
                 keep_artifacts : BOOLEAN,
                 idea_limit : 1..MaxIdeaLimit,
                 limit : {RunLimit}]
    /\ x_pc = "parse_args"
    /\ x_fetched = 0
    /\ x_raw_rows = <<>>
    /\ x_candidates = <<>>
    /\ x_paths = Unresolved
    /\ x_fs = InitialFs
    /\ x_log = <<>>
    /\ x_payload = <<>>
    /\ x_selected = <<>>
    /\ x_appended = 0
    /\ x_exit = Running
    \* no queue writer call is in progress
    /\ qfile = AbsentFile
    /\ qdir = FALSE
    /\ qprev = AbsentFile
    /\ qdirprev = FALSE
    /\ qideas = <<>>
    /\ qret = 0
    /\ qcalls = 0
    \* no merge_exchange_rows call is in progress
    /\ m_exchange = NASDAQ
    /\ m_max_pages = 1
    /\ m_page = 0
    /\ m_page_rows = <<>>
    /\ m_merged = <<>>
    /\ m_before = <<>>
    /\ m_fetches = <<>>
    /\ m_counts = <<>>
    /\ m_pc = "done"
    \* no collect_candidates call is in progress
    /\ c_raw_rows = <<>>
    /\ c_limit = 1
    /\ c_candidates = <<>>
    /\ c_pc = "done"

\* parse_args, lines 535-542: parser.error exits with status 2
ParseArgs ==
    /\ x_pc = "parse_args"
    /\ IF \/ /\ args.screen_run_id \notin {None, <<>>}
             /\ ~RUN_ID_RE_match(args.screen_run_id)
          \/ args.fetch_only /\ args.selection_json # NoPath
       THEN x_pc' = "exit" /\ x_exit' = Exit(2, "usage")
       ELSE x_pc' = "fetch" /\ x_exit' = x_exit
    /\ UNCHANGED <<args, x_fetched, x_raw_rows, x_candidates, x_paths, x_fs,
                   x_log, x_payload, x_selected, x_appended>>
    /\ UNCHANGED <<qvars, mvars, cvars>>

\* lines 803-811: merge_exchange_rows for the next exchange returns rows
FetchExchange(rows) ==
    /\ x_pc = "fetch"
    /\ x_fetched' = x_fetched + 1
    /\ x_raw_rows' = x_raw_rows \o rows
    /\ x_pc' = IF x_fetched + 1 = Len(EXCHANGES) THEN "collect" ELSE "fetch"
    /\ UNCHANGED <<args, x_candidates, x_paths, x_fs, x_log, x_payload, x_selected,
                   x_appended, x_exit>>
    /\ UNCHANGED <<qvars, mvars, cvars>>

\* lines 813-816
Collect ==
    /\ x_pc = "collect"
    /\ x_candidates' = collect_candidates(x_raw_rows, args.limit)
    /\ x_pc' = "resolve"
    /\ UNCHANGED <<args, x_fetched, x_raw_rows, x_paths, x_fs, x_log, x_payload, x_selected,
                   x_appended, x_exit>>
    /\ UNCHANGED <<qvars, mvars, cvars>>

\* lines 818-827: a ValueError becomes SystemExit(message), status 1
Resolve(now) ==
    /\ x_pc = "resolve"
    /\ LET r == ResolvePaths(args.output_json, args.ideas_log, args.screen_run_id, now)
       IN IF r.ok
          THEN x_paths' = r /\ x_pc' = "write" /\ x_exit' = x_exit
          ELSE x_paths' = x_paths /\ x_pc' = "exit" /\ x_exit' = Exit(1, "validation")
    /\ UNCHANGED <<args, x_fetched, x_raw_rows, x_candidates, x_fs, x_log,
                   x_payload, x_selected, x_appended>>
    /\ UNCHANGED <<qvars, mvars, cvars>>

\* lines 829-862: the snapshot is written; without a selection the summary
\* is printed and main returns 0
WriteSnapshot ==
    /\ x_pc = "write"
    /\ x_fs' = [x_fs EXCEPT ![x_paths.output_json_path] = File(<<SNAP, NL>>)]
    /\ x_log' = Append(x_log, LogEntry("write_text", x_paths.output_json_path))
    /\ IF args.fetch_only \/ args.selection_json = NoPath
       THEN x_pc' = "exit" /\ x_exit' = Exit(0, "fetch_summary")
       ELSE x_pc' = "select" /\ x_exit' = x_exit
    /\ UNCHANGED <<args, x_fetched, x_raw_rows, x_candidates, x_paths,
                   x_payload, x_selected, x_appended>>
    /\ UNCHANGED <<qvars, mvars, cvars>>

\* lines 864-886: the selection is read and normalized; payload is what the
\* selection text holds
SelectIdeas(payload) ==
    /\ x_pc = "select"
    /\ LET raw == IF args.selection_json = STDIN THEN <<SEL>>
                  ELSE x_fs[args.selection_json].data
           readable == args.selection_json = STDIN \/ x_fs[args.selection_json].exists
           read == _read_selection_payload(raw, payload)
           normalized_selected ==
               _normalize_selected_ideas(read.items, x_candidates, args.idea_limit)
       IN IF ~readable \/ ~read.ok
          THEN /\ x_pc' = "exit" /\ x_exit' = Exit(1, "selection")
               /\ x_payload' = x_payload /\ x_selected' = x_selected
          ELSE IF normalized_selected = <<>>
          THEN /\ x_pc' = "exit" /\ x_exit' = Exit(1, "no_valid_ideas")
               /\ x_payload' = read.items /\ x_selected' = x_selected
          ELSE /\ x_pc' = "append" /\ x_exit' = x_exit
               /\ x_payload' = read.items /\ x_selected' = normalized_selected
    /\ UNCHANGED <<args, x_fetched, x_raw_rows, x_candidates, x_paths, x_fs,
                   x_log, x_appended>>
    /\ UNCHANGED <<qvars, mvars, cvars>>

\* lines 888-891
AppendIdeas ==
    /\ x_pc = "append"
    /\ LET r == append_selected_ideas(x_fs[x_paths.screener_results_path], x_selected)
       IN /\ x_fs' = [x_fs EXCEPT ![x_paths.screener_results_path] = r.file]
          /\ x_log' = IF r.mkdir
                      THEN Append(x_log, LogEntry("append", x_paths.screener_results_path))
                      ELSE x_log
          /\ x_appended' = r.count
    /\ x_pc' = "cleanup"
    /\ UNCHANGED <<args, x_fetched, x_raw_rows, x_candidates, x_paths,
                   x_payload, x_selected, x_exit>>
    /\ UNCHANGED <<qvars, mvars, cvars>>

\* how the unlink calls of a cleanup may end: all succeed (at = 0), or the
\* at-th one raises an OSError: PermissionError when the file is in use or
\* protected, FileNotFoundError when another process removed it after the
\* exists() check
UnlinkOutcomes ==
    {[at |-> 0, error |-> "none"]}
    \cup {[at |-> k, error |-> e] : k \in 1..2, e \in {"PermissionError", "FileNotFoundError"}}

\* lines 892-915: cleanup, then the summary is printed and main returns 0;
\* unlink() is called without a try, so an OSError it raises leaves
\* _cleanup_artifacts and main, and the process ends with a traceback and
\* status 1 before the summary is printed
Cleanup(outcome) ==
    /\ x_pc = "cleanup"
    /\ LET attempted == _cleanup_artifacts(
                          [p \in FsPaths |-> x_fs[p].exists],
                          x_paths.output_json_path,
                          IF args.selection_json = STDIN THEN NoPath
                          ELSE args.selection_json,
                          x_paths.screener_results_path,
                          args.keep_artifacts)
           cleaned == IF outcome.at = 0 THEN attempted
                      ELSE SubSeq(attempted, 1, outcome.at - 1)
           gone == IF outcome.error = "FileNotFoundError"
                   THEN {attempted[outcome.at]} ELSE {}
       IN /\ outcome.at <= Len(attempted)
          /\ x_fs' = [p \in FsPaths |->
                        IF p \in Range(cleaned) \cup gone THEN AbsentFile ELSE x_fs[p]]
          /\ x_log' = x_log \o [i \in 1..Len(cleaned) |-> LogEntry("unlink", cleaned[i])]
    /\ x_pc' = "exit"
    /\ x_exit' = IF outcome.at = 0 THEN Exit(0, "summary") ELSE Exit(1, outcome.error)
    /\ UNCHANGED <<args, x_fetched, x_raw_rows, x_candidates, x_paths,
                   x_payload, x_selected, x_appended>>
    /\ UNCHANGED <<qvars, mvars, cvars>>

MainNext ==
    \/ ParseArgs
    \/ \E rows \in ExchangeRows(x_fetched + 1) : FetchExchange(rows)
    \/ Collect
    \/ \E now \in ClockRunIds : Resolve(now)
    \/ WriteSnapshot
    \/ \E payload \in SelectionPayloads : SelectIdeas(payload)
    \/ AppendIdeas
    \/ \E outcome \in UnlinkOutcomes : Cleanup(outcome)

\* -------------------------------------------------------- specifications
QueueSpec == QueueInit /\ [][QueueNext]_vars

MergeSpec == MergeInit /\ [][MergeNext]_vars

CollectSpec == CollectInit /\ [][CollectNext]_vars

MainSpec == MainInit /\ [][MainNext]_vars

\* ------------------------------------------------------- queue properties
\* index of the first idea of the call whose ticker key is key
FirstIdeaWith(key) ==
    CHOOSE i \in 1..Len(qideas) :
        /\ TickerKey(qideas[i].ticker) = key
        /\ \A j \in 1..(i - 1) : TickerKey(qideas[j].ticker) # key

RecordsWith(file, key) ==
    {i \in 1..Len(Records(file)) : TickerKey(Records(file)[i].ticker) = key}

\* C1: after any sequence of append_selected_ideas calls on a queue file that
\* started absent, empty or duplicate-free, no two records have the same
\* ticker; the records that were there stay as written, and a ticker offered
\* by the call has exactly one record, written from the first idea that
\* offered it when it is new.
C1_NoDuplicateTickers ==
    /\ NoDuplicateTickers(qfile)
    /\ IsPrefix(Records(qprev), Records(qfile))
    /\ \A i \in 1..Len(qideas) :
         LET key == TickerKey(qideas[i].ticker) IN
         key # <<>> =>
            /\ Cardinality(RecordsWith(qfile, key)) = 1
            /\ RecordsWith(qprev, key) = {} =>
                 LET r == Records(qfile)[CHOOSE n \in RecordsWith(qfile, key) : TRUE]
                 IN /\ r.ticker = key
                    /\ r.thesis = _clean_text(qideas[FirstIdeaWith(key)].thesis)

\* a call offered ticker A twice under two spellings to a file that held a
\* record of ticker B; one record was added
C1_Witness ==
    /\ qcalls > 0
    /\ Len(qideas) = 2
    /\ qideas[1] = Idea(<<" ", "a">>, <<"y", " ">>)
    /\ qideas[2] = Idea(<<"A">>, <<"x">>)
    /\ RecordsWith(qprev, <<"B">>) # {}
    /\ RecordsWith(qprev, <<"A">>) = {}
    /\ qret = 1

\* a call offered ticker A, which the file held in another spelling, and
\* ticker B; only B was added
C1_WitnessQueued ==
    /\ qcalls > 0
    /\ qideas = <<Idea(<<"A">>, <<"x">>), Idea(<<"B">>, <<"x">>)>>
    /\ \E i \in 1..Len(Records(qprev)) : Records(qprev)[i].ticker = <<" ", "a">>
    /\ qret = 1
    /\ Cardinality(RecordsWith(qfile, <<"A">>)) = 1

\* the bytes a call added to the file
AddedData == SubSeq(qfile.data, Len(qprev.data) + 1, Len(qfile.data))

\* C2: the content before a call is a prefix of the content after it, and
\* what was added is an optional separating newline followed by the staged
\* records, each terminated by a newline.
C2_AppendOnly ==
    /\ qprev.exists => qfile.exists
    /\ IsPrefix(qprev.data, qfile.data)
    /\ LET sep == AddedData # <<>> /\ AddedData[1] = NL
           body == IF sep THEN Tail(AddedData) ELSE AddedData
       IN /\ Len(body) = 2 * qret
          /\ \A i \in 1..Len(body) :
                IF i % 2 = 1 THEN body[i].k = "rec" ELSE body[i] = NL
          /\ sep => (qprev.data # <<>> /\ qprev.data[Len(qprev.data)] # NL)

\* a call appended to a file that held a malformed line and did not end in
\* a newline
C2_Witness ==
    /\ qcalls > 0
    /\ qret > 0
    /\ qprev.exists
    /\ \E i \in 1..Len(qprev.data) : qprev.data[i] = JUNK
    /\ qprev.data[Len(qprev.data)] # NL
    /\ AddedData[1] = NL

\* the call staged nothing: every idea has an empty ticker or a ticker the
\* file already held
NothingToStage ==
    \A i \in 1..Len(qideas) :
        \/ TickerKey(qideas[i].ticker) = <<>>
        \/ RecordsWith(qprev, TickerKey(qideas[i].ticker)) # {}

\* C4: a call that stages nothing returns 0 and leaves the file as it was;
\* an absent file stays absent and its parent directory is not created.
C4_NothingStaged ==
    (qcalls > 0 /\ NothingToStage) =>
        /\ qret = 0
        /\ qfile = qprev
        /\ qdir = qdirprev

\* a call with ideas, all empty or already queued, on an absent file whose
\* directory does not exist
C4_Witness ==
    /\ qcalls > 0
    /\ qideas # <<>>
    /\ NothingToStage
    /\ ~qprev.exists
    /\ ~qdirprev
    /\ ~qfile.exists
    /\ ~qdir

\* a call that only repeats a queued ticker in another spelling
C4_WitnessQueued ==
    /\ qcalls > 0
    /\ qideas = <<Idea(<<" ", "a">>, <<"y", " ">>)>>
    /\ RecordsWith(qprev, <<"A">>) # {}
    /\ qret = 0

\* ---------------------------------------------------- aggregator properties
DecidedPages == Len(m_counts)

PageMin(p) == Min({m_counts[p][v] : v \in 1..Len(m_counts[p])})

\* m_page_rows holds the page that was decided last
LastPageDecided == DecidedPages >= 1 /\ m_pc # "decide" /\ Len(m_page_rows) = 3

\* the rows of the last page in the order the merge visits them
PageRowsFlat == m_page_rows[1].rows \o m_page_rows[2].rows \o m_page_rows[3].rows

PageKeys ==
    {TickerKey(PageRowsFlat[i].Ticker) : i \in 1..Len(PageRowsFlat)} \ {<<>>}

\* the rows of the last page for ticker key that carry column k
Carriers(key, k) ==
    LET Carries(r) == TickerKey(r.Ticker) = key /\ r[k] # None
    IN SelectSeq(PageRowsFlat, Carries)

\* C7: pages are fetched at offsets 1, 21, 41, ... with the views in order;
\* all views of a page are fetched before the decision; a page whose minimum
\* row count is 0 ends the loop unmerged, one below 20 ends it after being
\* merged, a page is only fetched after full pages, and never more than
\* max_pages pages are fetched.
C7_PageLoop ==
    /\ \A i \in 1..Len(m_fetches) :
         /\ m_fetches[i].start_row = 1 + 20 * ((i - 1) \div 3)
         /\ m_fetches[i].view = <<111, 121, 161>>[((i - 1) % 3) + 1]
    /\ Len(m_fetches) <= 3 * m_max_pages
    /\ \A p \in 1..(DecidedPages - 1) : PageMin(p) >= 20
    /\ m_pc = "decide" => Len(m_fetches) = 3 * (DecidedPages + 1)
    /\ m_pc = "fetch" =>
         /\ Len(m_fetches) \in (3 * DecidedPages)..(3 * DecidedPages + 2)
         /\ DecidedPages >= 1 =>
              PageMin(DecidedPages) >= 20 /\ DecidedPages < m_max_pages
    /\ m_pc = "done" =>
         /\ DecidedPages >= 1
         /\ Len(m_fetches) = 3 * DecidedPages
         /\ PageMin(DecidedPages) < 20 \/ DecidedPages = m_max_pages
    /\ LastPageDecided =>
         IF PageMin(DecidedPages) = 0
         THEN m_merged = m_before
         ELSE \A key \in PageKeys : HasKey(m_merged, key)

\* the loop ended before max_pages on a page one row short, after merging it
C7_Witness ==
    /\ m_pc = "done"
    /\ DecidedPages = 1
    /\ m_max_pages > 1
    /\ PageMin(1) = 19
    /\ PageKeys # {}
    /\ m_merged # <<>>

\* the loop ended on an empty second page, which was not merged
C7_WitnessEmptyPage ==
    /\ m_pc = "done"
    /\ DecidedPages = 2
    /\ PageMin(2) = 0
    /\ PageKeys # {}
    /\ m_merged = m_before

\* C8: in a merged page, a column carried by the rows of several views for a
\* ticker holds the value of the last of them in the view order 111, 121,
\* 161; every column carried by any row is in the merged record; a ticker
\* that is new starts from {Ticker, Exchange}.
C8_LaterViewWins ==
    (LastPageDecided /\ PageMin(DecidedPages) > 0) =>
        \A key \in PageKeys : \A k \in RowKeys :
            LET carriers == Carriers(key, k)
                slot == SlotOf(m_merged, key)
            IN IF carriers # <<>>
               THEN slot[k] = carriers[Len(carriers)][k]
               ELSE ~HasKey(m_before, key) =>
                      slot[k] = (IF k = "Exchange" THEN m_exchange ELSE None)

\* view 111 and view 121 disagree on Company for ticker A and only view 121
\* has its P/E
C8_Witness ==
    /\ LastPageDecided
    /\ DecidedPages = 1
    /\ PageMin(1) > 0
    /\ m_page_rows[1].rows = <<Row(<<"A">>, None, <<"c","1">>, None)>>
    /\ m_page_rows[2].rows = <<Row(<<" ","a">>, None, <<"c","2">>, <<"9">>)>>
    /\ m_page_rows[3].rows = <<>>
    /\ SlotOf(m_merged, <<"A">>).Company = <<"c","2">>
    /\ SlotOf(m_merged, <<"A">>).PE = <<"9">>

\* C9 as stated: a value an earlier page set for a ticker is not overwritten
\* by a later page.
C9_FirstPageStands ==
    LastPageDecided =>
        \A i \in 1..Len(m_before) : \A k \in RowKeys :
            m_before[i].slot[k] # None =>
                SlotOf(m_merged, m_before[i].key)[k] = m_before[i].slot[k]

\* C9 as the code has it: the record of a ticker seen on an earlier page is
\* updated by a later page under the same shallow merge; a column the later
\* page carries takes the later page's value, every other column keeps the
\* value it had.
C9_LaterPageOverwrites ==
    LastPageDecided =>
        \A i \in 1..Len(m_before) :
            /\ m_merged[i].key = m_before[i].key
            /\ \A k \in RowKeys :
                 LET carriers == IF PageMin(DecidedPages) = 0 THEN <<>>
                                 ELSE Carriers(m_before[i].key, k)
                 IN m_merged[i].slot[k] =
                        IF carriers # <<>> THEN carriers[Len(carriers)][k]
                        ELSE m_before[i].slot[k]

\* a second page changed the Company of a ticker of the first page and left
\* its P/E, which the second page does not carry
C9_Witness ==
    /\ LastPageDecided
    /\ DecidedPages = 2
    /\ PageMin(2) > 0
    /\ \E i \in 1..Len(m_before) :
         /\ m_before[i].slot.Company # None
         /\ m_merged[i].slot.Company # m_before[i].slot.Company
         /\ m_before[i].slot.PE # None
         /\ Carriers(m_before[i].key, "PE") = <<>>
         /\ m_merged[i].slot.PE = m_before[i].slot.PE

\* ----------------------------------------------------- collector properties
\* the first row of raw_rows whose ticker key is key
FirstRowWith(key) ==
    c_raw_rows[CHOOSE i \in 1..Len(c_raw_rows) :
                  /\ TickerKey(c_raw_rows[i].Ticker) = key
                  /\ \A j \in 1..(i - 1) : TickerKey(c_raw_rows[j].Ticker) # key]

\* C10: collect_candidates emits only candidates with a non-empty upper-case
\* ticker, no ticker twice, each built from the first row of its ticker, and
\* at most limit of them.
C10_CollectedCandidates ==
    c_pc = "done" =>
        /\ Len(c_candidates) <= c_limit
        /\ \A i \in 1..Len(c_candidates) :
             LET ticker == c_candidates[i].ticker IN
             /\ ticker # <<>>
             /\ \A n \in 1..Len(ticker) :
                  ~IsSpace(ticker[n]) /\ ticker[n] \notin Range(LowerLetters)
             /\ \A j \in 1..Len(c_candidates) :
                  j # i => c_candidates[j].ticker # ticker
             /\ \E n \in 1..Len(c_raw_rows) : TickerKey(c_raw_rows[n].Ticker) = ticker
             /\ c_candidates[i].exchange = _clean_text(FirstRowWith(ticker).Exchange)

\* a blank ticker, then ticker A on two exchanges under two spellings
C10_Witness ==
    /\ c_pc = "done"
    /\ c_limit = 2
    /\ Len(c_raw_rows) = 3
    /\ c_raw_rows[1].Ticker = <<" ">>
    /\ c_raw_rows[2] = Row(<<" ","a">>, NASDAQ, <<"c","1">>, None)
    /\ c_raw_rows[3] = Row(<<"A">>, NYSE, <<"c","1">>, None)
    /\ c_candidates = <<Candidate(<<"A">>, <<"c","1">>, NASDAQ, Metrics(NoNumber, NoNumber, NoNumber))>>

\* limit cut the list short of the distinct tickers offered
C10_WitnessLimit ==
    /\ c_pc = "done"
    /\ c_limit = 1
    /\ Len(c_candidates) = 1
    /\ \E n \in 1..Len(c_raw_rows) :
         TickerKey(c_raw_rows[n].Ticker) \notin {<<>>, c_candidates[1].ticker}

\* thresholds of a screen, in tenths like the parsed numbers: max_pe=25,
\* min_roe=15, max_debt_to_equity=1, and a second, wider set
Thresholds ==
    {[max_pe |-> 250, min_roe |-> 150, max_debt_to_equity |-> 10],
     [max_pe |-> 400, min_roe |-> 100, max_debt_to_equity |-> 20]}

\* the parsed metrics satisfy every threshold; a missing metric satisfies none
Satisfies(metrics, th) ==
    /\ ~metrics.pe.null /\ metrics.pe.tenths <= th.max_pe
    /\ ~metrics.roe_pct.null /\ metrics.roe_pct.tenths >= th.min_roe
    /\ ~metrics.debt_to_equity.null
    /\ metrics.debt_to_equity.tenths <= th.max_debt_to_equity

\* the composite score over the carried metrics, in hundredths of a point:
\* 40 points for P/E below max_pe scaled by (max_pe - pe)/max_pe, 10 points
\* for ROE scaled to 30%, 5 points for (1 - debt/ceiling) clamped to [0,1];
\* a missing metric adds 0
Score(metrics, th) ==
    LET M == th.max_pe
        C == th.max_debt_to_equity
        D == M * 300 * C
        value == IF metrics.pe.null \/ metrics.pe.tenths >= M THEN 0
                 ELSE 40 * (M - metrics.pe.tenths) * 300 * C
        roe == IF metrics.roe_pct.null THEN 0
               ELSE 10 * Min({metrics.roe_pct.tenths, 300}) * M * C
        debt == IF metrics.debt_to_equity.null \/ metrics.debt_to_equity.tenths >= C
                THEN 0
                ELSE 5 * (C - metrics.debt_to_equity.tenths) * M * 300
        N == value + roe + debt
    IN 100 * (N \div D) + ((200 * (N % D) + D) \div (2 * D))

\* the ticker keys of the raw rows, the index of the first row of a key, and
\* the candidate built from it
BuiltKeys == {TickerKey(c_raw_rows[n].Ticker) : n \in 1..Len(c_raw_rows)} \ {<<>>}

FirstIndexOf(key) ==
    CHOOSE i \in 1..Len(c_raw_rows) :
        /\ TickerKey(c_raw_rows[i].Ticker) = key
        /\ \A j \in 1..(i - 1) : TickerKey(c_raw_rows[j].Ticker) # key

CandidateOf(key) == build_candidate(c_raw_rows[FirstIndexOf(key)])

EmittedKeys == {c_candidates[i].ticker : i \in 1..Len(c_candidates)}

C3_QueueOnlyAppended ==
    \A i \in 1..Len(x_log) :
        x_log[i].path = x_paths.screener_results_path => x_log[i].op = "append"

\* C5: a run that ends on a run-identifier validation failure has fetched
\* nothing and has written no file.
C5_ValidationBeforeFetch ==
    (x_pc = "exit" /\ x_exit.kind \in {"usage", "validation"}) =>
        x_fetched = 0 /\ x_log = <<>>

\* C6: when path resolution succeeds, the identifier in the snapshot path
\* and the one in the queue path, where there is one, equal the resolved
\* identifier, and so does the --screen-run-id that was given.
C6_IdentifiersAgree ==
    x_paths.ok =>
        /\ \A id \in {_extract_screen_run_id_from_path(x_paths.output_json_path),
                      _extract_screen_run_id_from_path(x_paths.screener_results_path)} :
              id # None => id = x_paths.screen_run_id
        /\ args.screen_run_id # None => x_paths.screen_run_id = args.screen_run_id

\* the same with the given --screen-run-id taken as _clean_text trims it
IdentifiersAgreeTrimmed ==
    x_paths.ok =>
        /\ \A id \in {_extract_screen_run_id_from_path(x_paths.output_json_path),
                      _extract_screen_run_id_from_path(x_paths.screener_results_path)} :
              id # None => id = x_paths.screen_run_id
        /\ args.screen_run_id # None =>
              x_paths.screen_run_id = _clean_text(args.screen_run_id)

\* the --selection-json path of the run, NoPath when there is none or it is
\* standard input
SelectionPath == IF args.selection_json = STDIN THEN NoPath ELSE args.selection_json

\* C11: every file the cleanup deletes is the snapshot file or the
\* selection-input file, lies inside the directory that holds the queue
\* file and is not the queue file itself; with --keep-artifacts nothing is
\* deleted.
C11_CleanupOnlyArtifacts ==
    \A i \in 1..Len(x_log) :
        x_log[i].op = "unlink" =>
            /\ ~args.keep_artifacts
            /\ x_log[i].path \in {x_paths.output_json_path, SelectionPath} \ {NoPath}
            /\ _is_within(x_log[i].path, PathParent(x_paths.screener_results_path))
            /\ x_log[i].path # x_paths.screener_results_path

\* the same for every deleted file that is not also the snapshot path
CleanupOnlyArtifactsBesideSnapshot ==
    \A i \in 1..Len(x_log) :
        (x_log[i].op = "unlink" /\ x_paths.output_json_path # x_paths.screener_results_path) =>
            /\ ~args.keep_artifacts
            /\ x_log[i].path \in {x_paths.output_json_path, SelectionPath} \ {NoPath}
            /\ _is_within(x_log[i].path, PathParent(x_paths.screener_results_path))
            /\ x_log[i].path # x_paths.screener_results_path

\* C12: a run that got past the append ends with the summary and status 0,
\* whatever happens to the deletions of the cleanup.
C12_CleanupFailureNonFatal ==
    (x_pc = "exit" /\ x_selected # <<>>) => x_exit = Exit(0, "summary")

\* a run that got past the append ends with the summary and status 0 unless
\* an unlink of the cleanup raised
SummaryUnlessUnlinkRaises ==
    (x_pc = "exit" /\ x_selected # <<>>) =>
        x_exit \in {Exit(0, "summary"), Exit(1, "PermissionError"),
                    Exit(1, "FileNotFoundError")}

\* the run ended on a selection-input failure
SelectionFailed == x_pc = "exit" /\ x_exit.kind \in {"selection", "no_valid_ideas"}

\* C13: a run that ends on a selection-input failure exits non-zero after
\* the snapshot was written: the snapshot is on disk, writing it is the only
\* change the run made to any file (nothing appended, nothing deleted), and
\* the queue file is as the run found it.
C13_SelectionFailureAfterSnapshot ==
    SelectionFailed =>
        /\ x_exit.code # 0
        /\ x_log = <<LogEntry("write_text", x_paths.output_json_path)>>
        /\ x_fs[x_paths.output_json_path] = File(<<SNAP, NL>>)
        /\ x_fs[x_paths.screener_results_path] = InitialFs[x_paths.screener_results_path]

\* the same for the runs whose snapshot path is not the queue path
SelectionFailureBesideSnapshot ==
    (SelectionFailed /\ x_paths.output_json_path # x_paths.screener_results_path) =>
        /\ x_exit.code # 0
        /\ x_log = <<LogEntry("write_text", x_paths.output_json_path)>>
        /\ x_fs[x_paths.output_json_path] = File(<<SNAP, NL>>)
        /\ x_fs[x_paths.screener_results_path] = InitialFs[x_paths.screener_results_path]

\* the file at the queue path as the append found it: what the run found
\* there, or the snapshot when the snapshot was written to that path
QueueBeforeAppend ==
    IF x_paths.output_json_path = x_paths.screener_results_path
    THEN File(<<SNAP, NL>>)
    ELSE InitialFs[x_paths.screener_results_path]

\* the records the append of this run added to the queue file
AddedRecords ==
    LET now == Records(x_fs[x_paths.screener_results_path])
        before == Records(QueueBeforeAppend)
    IN SubSeq(now, Len(before) + 1, Len(now))

CandidateTickers == {x_candidates[n].ticker : n \in 1..Len(x_candidates)}

\* a selection item that names a candidate and has a thesis
ValidItem(item) ==
    /\ TickerKey(item.ticker) # <<>>
    /\ TickerKey(item.ticker) \in CandidateTickers
    /\ _clean_text(item.thesis) # <<>>

\* C15: right after the append of a run, every record it added has the
\* ticker of a candidate of the run and a non-empty thesis, no ticker was
\* selected or added twice, and at most idea_limit records were added; items
\* with an empty, unknown or repeated ticker or an empty thesis are dropped,
\* and the run fails for want of ideas only when no item is valid.
C15_AddedFromCandidates ==
    /\ x_pc = "cleanup" =>
          /\ Len(AddedRecords) = x_appended
          /\ Len(AddedRecords) <= args.idea_limit
          /\ \A i \in 1..Len(AddedRecords) :
                /\ AddedRecords[i].ticker \in CandidateTickers
                /\ _clean_text(AddedRecords[i].thesis) # <<>>
                /\ \A j \in 1..Len(AddedRecords) :
                      j # i => AddedRecords[j].ticker # AddedRecords[i].ticker
                /\ \E n \in 1..Len(x_payload) :
                      /\ ValidItem(x_payload[n])
                      /\ TickerKey(x_payload[n].ticker) = AddedRecords[i].ticker
          /\ \A i, j \in 1..Len(x_selected) :
                i < j => x_selected[i].ticker # x_selected[j].ticker
          /\ \E n \in 1..Len(x_payload) : ValidItem(x_payload[n])
    /\ (x_pc = "exit" /\ x_exit.kind = "no_valid_ideas") =>
          \A n \in 1..Len(x_payload) : ~ValidItem(x_payload[n])

\* a selection with a blank ticker, an unknown one, a repeated one and an
\* empty thesis: the two valid items were added
C15_Witness ==
    /\ x_pc = "cleanup"
    /\ args.idea_limit = 2
    /\ Len(x_payload) = 6
    /\ x_payload[1].ticker = <<" ">>
    /\ x_payload[2].ticker = <<"Z">>
    /\ x_payload[4] = Idea(<<"A">>, <<"x">>)
    /\ x_payload[5] = Idea(<<"B">>, <<" ">>)
    /\ x_selected = <<Idea(<<"A">>, <<"y">>), Idea(<<"B">>, <<"x">>)>>
    /\ x_appended = 2
    /\ AddedRecords = <<Rec(<<"A">>, <<"y">>), Rec(<<"B">>, <<"x">>)>>

\* the limit cut the selection short of its valid items
C15_WitnessLimit ==
    /\ x_pc = "cleanup"
    /\ args.idea_limit = 1
    /\ Len(x_payload) = 6
    /\ x_appended = 1
    /\ AddedRecords = <<Rec(<<"A">>, <<"y">>)>>

====
